---- MODULE Spec2Model ----
(***************************************************************************)
(* Model of src/src/App.js: the App component (stocks / loading / error    *)
(* state and the fetchStockData effect) and its CSV parser parseCsv.       *)
(*                                                                         *)
(* Text is a sequence of one-character strings, so that splitting,         *)
(* trimming, quote handling and number parsing are computed character by   *)
(* character as the JavaScript does.  Indices are 1-based here and 0-based *)
(* in the source; headerStartIndex = 0 stands for the source's -1.         *)
(*                                                                         *)
(* Spec     the component: the effect, the fetch, the parse of the text    *)
(*          the server answered with, the sort, the view.                  *)
(* LiveSpec Spec with the fairness of the continuations of a resolved      *)
(*          fetch.                                                         *)
(* TokSpec  the character loop of the tokenizer on one line.               *)
(* NumSpec  the conversion of one column's text into the stored value.     *)
(***************************************************************************)
EXTENDS Integers, Sequences, FiniteSets, TLC

VARIABLES
    pc,            \* position of fetchStockData: mounted, awaitFetch, awaitText, awaitErrText, done
    stocks,        \* useState([])    App.js:5
    loading,       \* useState(true)  App.js:6
    error,         \* useState(null)  App.js:7
    responseOk,    \* response.ok of the resolved fetch (App.js:25): "none", "true", "false"
    csvText,       \* the text response.text() resolved with (App.js:30)
    parsedData,    \* what parseCsv returned for csvText (App.js:42)
    line,          \* tokenizer: the trimmed data line being scanned (App.js:98)
    j,             \* tokenizer: loop index of App.js:105 (1-based)
    scan,          \* tokenizer: values / currentValue / inQuotes (App.js:100-102)
    tokDone,       \* tokenizer: TRUE once App.js:117 has pushed the last value
    fieldName,     \* coercion: headers[j] of the column being converted
    fieldText,     \* coercion: values[j] of the column being converted
    coerced        \* coercion: the value stored in row[headers[j]] (App.js:137)

vars == <<pc, stocks, loading, error, responseOk, csvText, parsedData,
          line, j, scan, tokDone, fieldName, fieldText, coerced>>

appVars == <<pc, stocks, loading, error, responseOk, csvText, parsedData>>
tokVars == <<line, j, scan, tokDone>>
numVars == <<fieldName, fieldText, coerced>>

-----------------------------------------------------------------------------
(* Bounds of the model *)

MaxLines == 3      \* lines in a fetched text
MaxTokLen == 5     \* characters in a tokenized line
MaxNumLen == 3     \* characters in a numeric field text

-----------------------------------------------------------------------------
(* Characters and JavaScript string primitives *)

QUOTE == "\""
COMMA == ","
LF == "\n"

\* String.prototype.trim's white space, restricted to the characters of the model
IsSpace(c) == c \in {" ", "\t", "\r", "\n"}

LowerOf == [A |-> "a", B |-> "b", C |-> "c", D |-> "d", E |-> "e", F |-> "f",
            G |-> "g", H |-> "h", I |-> "i", J |-> "j", K |-> "k", L |-> "l",
            M |-> "m", N |-> "n", O |-> "o", P |-> "p", Q |-> "q", R |-> "r",
            S |-> "s", T |-> "t", U |-> "u", V |-> "v", W |-> "w", X |-> "x",
            Y |-> "y", Z |-> "z"]

\* String.prototype.toLowerCase
ToLowerCase(s) == [i \in 1..Len(s) |-> IF s[i] \in DOMAIN LowerOf THEN LowerOf[s[i]] ELSE s[i]]

RECURSIVE TrimStart(_)
TrimStart(s) == IF Len(s) > 0 /\ IsSpace(s[1]) THEN TrimStart(Tail(s)) ELSE s

RECURSIVE TrimEnd(_)
TrimEnd(s) == IF Len(s) > 0 /\ IsSpace(s[Len(s)]) THEN TrimEnd(SubSeq(s, 1, Len(s) - 1)) ELSE s

\* String.prototype.trim
Trim(s) == TrimEnd(TrimStart(s))

RECURSIVE SplitFrom(_, _, _, _)
SplitFrom(s, sep, i, cur) ==
    IF i > Len(s) THEN <<cur>>
    ELSE IF s[i] = sep THEN <<cur>> \o SplitFrom(s, sep, i + 1, <<>>)
    ELSE SplitFrom(s, sep, i + 1, Append(cur, s[i]))

\* String.prototype.split with a one-character separator
Split(s, sep) == SplitFrom(s, sep, 1, <<>>)

\* String.prototype.includes
Includes(s, sub) ==
    \E i \in 0..(Len(s) - Len(sub)) : SubSeq(s, i + 1, i + Len(sub)) = sub

\* s.replace(/^"|"$/g, ''): one leading and one trailing double quote removed
StripQuotes(s) ==
    LET a == IF Len(s) > 0 /\ s[1] = QUOTE THEN Tail(s) ELSE s
    IN  IF Len(a) > 0 /\ a[Len(a)] = QUOTE THEN SubSeq(a, 1, Len(a) - 1) ELSE a

\* s.replace(/ /g, '_')
SpacesToUnderscores(s) == [i \in 1..Len(s) |-> IF s[i] = " " THEN "_" ELSE s[i]]

\* s.replace(/,/g, '')
RemoveCommas(s) == SelectSeq(s, LAMBDA c : c # COMMA)

-----------------------------------------------------------------------------
(* Numbers: the decimal m / 10^f, kept normalised (f = 0 or m not a        *)
(* multiple of 10), and NaN.                                               *)

Digits == {"0", "1", "2", "3", "4", "5", "6", "7", "8", "9"}

DigitVal == [d \in Digits |->
    CASE d = "0" -> 0 [] d = "1" -> 1 [] d = "2" -> 2 [] d = "3" -> 3 [] d = "4" -> 4
      [] d = "5" -> 5 [] d = "6" -> 6 [] d = "7" -> 7 [] d = "8" -> 8 [] d = "9" -> 9]

RECURSIVE Pow10(_)
Pow10(n) == IF n = 0 THEN 1 ELSE 10 * Pow10(n - 1)

RECURSIVE Normalise(_, _)
Normalise(m, f) ==
    IF f > 0 /\ m % 10 = 0 THEN Normalise(m \div 10, f - 1) ELSE [m |-> m, f |-> f]

StrV(s) == [kind |-> "str", str |-> s, m |-> 0, f |-> 0]
NumV(m, f) == [kind |-> "num", str |-> <<>>, m |-> Normalise(m, f).m, f |-> Normalise(m, f).f]
NaN == [kind |-> "nan", str |-> <<>>, m |-> 0, f |-> 0]
Zero == NumV(0, 0)

RECURSIVE DigitRun(_)
DigitRun(s) == IF Len(s) > 0 /\ s[1] \in Digits THEN <<s[1]>> \o DigitRun(Tail(s)) ELSE <<>>

RECURSIVE DigitsValue(_)
DigitsValue(ds) ==
    IF Len(ds) = 0 THEN 0
    ELSE 10 * DigitsValue(SubSeq(ds, 1, Len(ds) - 1)) + DigitVal[ds[Len(ds)]]

\* parseFloat: leading white space skipped, then the longest prefix that is a
\* decimal literal (sign, digits, point, digits); NaN when there is none.
\* The texts of the model hold no exponent part and no "Infinity".
ParseFloat(s) ==
    LET t == TrimStart(s)
        signed == Len(t) > 0 /\ t[1] \in {"-", "+"}
        neg == Len(t) > 0 /\ t[1] = "-"
        u == IF signed THEN Tail(t) ELSE t
        ip == DigitRun(u)
        afterInt == SubSeq(u, Len(ip) + 1, Len(u))
        hasPoint == Len(afterInt) > 0 /\ afterInt[1] = "."
        fp == IF hasPoint THEN DigitRun(Tail(afterInt)) ELSE <<>>
        mag == DigitsValue(ip \o fp)
    IN  IF Len(ip) = 0 /\ Len(fp) = 0 THEN NaN
        ELSE NumV(IF neg THEN 0 - mag ELSE mag, Len(fp))

\* x || 0 for a number x: NaN and 0 are falsy
OrZero(x) == IF x.kind = "nan" \/ (x.kind = "num" /\ x.m = 0) THEN Zero ELSE x

\* sign of a - b for two numbers
Cmp(a, b) ==
    LET l == a.m * Pow10(b.f)
        r == b.m * Pow10(a.f)
    IN  IF l < r THEN -1 ELSE IF l > r THEN 1 ELSE 0

-----------------------------------------------------------------------------
(* parseCsv *)

SYMBOL_LC == <<"s", "y", "m", "b", "o", "l">>
SYMBOL_KEY == <<"S", "y", "m", "b", "o", "l">>
LIQUIDITY == <<"L", "i", "q", "u", "i", "d", "i", "t", "y">>
VOLUME == <<"V", "o", "l", "u", "m", "e">>
CURRENT_PRICE == <<"C", "u", "r", "r", "e", "n", "t", "_", "p", "r", "i", "c", "e">>
PRICE_CHANGE == <<"P", "r", "i", "c", "e", "_", "c", "h", "a", "n", "g", "e">>
PERCENT_CHANGE == <<"P", "e", "r", "c", "e", "n", "t", "_", "c", "h", "a", "n", "g", "e">>
PROTO == <<"_", "_", "p", "r", "o", "t", "o", "_", "_">>

\* Mutation of IsHeaderLine: "symbol" is looked for in the whole line
IsHeaderLineAnyToken(raw) ==
    Len(Trim(raw)) > 0 /\ Includes(ToLowerCase(Trim(raw)), SYMBOL_LC)

\* App.js:74-78: the test a line must pass to become the header line
IsHeaderLine(raw) ==
    LET l == Trim(raw)
        parts == SelectSeq(Split(l, COMMA), LAMBDA part : Len(Trim(part)) > 0)
    IN  /\ Len(l) > 0
        /\ Len(parts) > 0
        /\ Includes(ToLowerCase(parts[1]), SYMBOL_LC)

\* App.js:79-83
ParseHeaders(raw) ==
    LET cols == Split(Trim(raw), COMMA)
    IN  [k \in 1..Len(cols) |-> SpacesToUnderscores(StripQuotes(Trim(cols[k])))]

RECURSIVE FindHeaderFrom(_, _)
FindHeaderFrom(lines, i) ==
    IF i > Len(lines) THEN 0
    ELSE IF IsHeaderLine(lines[i]) THEN i
    ELSE FindHeaderFrom(lines, i + 1)

\* App.js:73-88: headerStartIndex, 0 when no header is found
FindHeader(lines) == FindHeaderFrom(lines, 1)

\* App.js:100-102
ScanInit == [values |-> <<>>, currentValue |-> <<>>, inQuotes |-> FALSE]

\* Mutation of ScanStep: a comma separates inside quotes too
ScanStepAnyComma(st, char) ==
    IF char = QUOTE THEN [st EXCEPT !.inQuotes = ~st.inQuotes]
    ELSE IF char = COMMA
         THEN [st EXCEPT !.values = Append(st.values, Trim(st.currentValue)),
                         !.currentValue = <<>>]
    ELSE [st EXCEPT !.currentValue = Append(st.currentValue, char)]

\* App.js:106-115: one iteration of the character loop
ScanStep(st, char) ==
    IF char = QUOTE THEN [st EXCEPT !.inQuotes = ~st.inQuotes]
    ELSE IF char = COMMA /\ ~st.inQuotes
         THEN [st EXCEPT !.values = Append(st.values, Trim(st.currentValue)),
                         !.currentValue = <<>>]
    ELSE [st EXCEPT !.currentValue = Append(st.currentValue, char)]

\* App.js:117
ScanFinish(st) == Append(st.values, Trim(st.currentValue))

RECURSIVE ScanFrom(_, _, _)
ScanFrom(l, k, st) ==
    IF k > Len(l) THEN st ELSE ScanFrom(l, k + 1, ScanStep(st, l[k]))

\* App.js:100-117: the values of a trimmed data line
Tokenize(l) == ScanFinish(ScanFrom(l, 1, ScanInit))

NumericNames == {CURRENT_PRICE, PRICE_CHANGE, LIQUIDITY, VOLUME}

\* Mutation of Coerce: the commas are left in the text of every numeric field
CoerceKeepCommas(h, v) ==
    LET value == StripQuotes(v)
    IN  IF h \in NumericNames \/ h = PERCENT_CHANGE THEN OrZero(ParseFloat(value))
        ELSE StrV(value)

\* App.js:123-135: the value stored for column header h with field text v
Coerce(h, v) ==
    LET value == StripQuotes(v)
    IN  IF h \in NumericNames THEN OrZero(ParseFloat(RemoveCommas(value)))
        ELSE IF h = PERCENT_CHANGE THEN OrZero(ParseFloat(value))
        ELSE StrV(value)

\* Mutation of RowSet: a key already present keeps its first value
RowSetKeepFirst(row, key, value) ==
    IF key = PROTO \/ key \in DOMAIN row THEN row
    ELSE [k \in (DOMAIN row) \cup {key} |-> IF k = key THEN value ELSE row[k]]

\* App.js:137: row[key] = value on a plain object; assigning a primitive to
\* __proto__ goes to the prototype setter and creates no key
RowSet(row, key, value) ==
    IF key = PROTO THEN row
    ELSE [k \in (DOMAIN row) \cup {key} |-> IF k = key THEN value ELSE row[k]]

RECURSIVE BuildRowFrom(_, _, _, _)
BuildRowFrom(headers, values, k, row) ==
    IF k > Len(headers) THEN row
    ELSE BuildRowFrom(headers, values, k + 1,
                      RowSet(row, headers[k], Coerce(headers[k], values[k])))

\* App.js:121-138
BuildRow(headers, values) == BuildRowFrom(headers, values, 1, <<>>)

\* Mutation of HasSymbol: the key is tested, not its value
HasSymbolKeyOnly(row) == SYMBOL_KEY \in DOMAIN row

\* App.js:140: row.Symbol && row.Symbol.length > 0
HasSymbol(row) ==
    /\ SYMBOL_KEY \in DOMAIN row
    /\ row[SYMBOL_KEY].kind = "str"
    /\ Len(row[SYMBOL_KEY].str) > 0

\* Mutation of FieldCountMatches: surplus fields are tolerated
FieldCountAtLeast(values, headers) == Len(values) >= Len(headers)

\* App.js:120: values.length === headers.length
FieldCountMatches(values, headers) == Len(values) = Len(headers)

\* App.js:98-148: what one line after the header adds to data
RowsOfLine(headers, raw, i) ==
    LET l == Trim(raw)
        values == Tokenize(l)
        row == BuildRow(headers, values)
    IN  IF Len(l) > 0 /\ FieldCountMatches(values, headers) /\ HasSymbol(row)
        THEN <<[line |-> i, row |-> row]>>
        ELSE <<>>

RECURSIVE DataFrom(_, _, _)
DataFrom(lines, headers, i) ==
    IF i > Len(lines) THEN <<>>
    ELSE RowsOfLine(headers, lines[i], i) \o DataFrom(lines, headers, i + 1)

\* Mutation of FirstDataLine: the data loop starts on the header line
FirstDataLineAtHeader(headerStartIndex) == headerStartIndex

\* App.js:97: the data loop starts on the line after the header
FirstDataLine(headerStartIndex) == headerStartIndex + 1

\* App.js:65-156 with each pushed row tagged by the index i of its line
ParseCsvTagged(text) ==
    LET lines == Split(text, LF)
        headerStartIndex == FindHeader(lines)
    IN  IF headerStartIndex = 0 THEN <<>>
        ELSE DataFrom(lines, ParseHeaders(lines[headerStartIndex]),
                      FirstDataLine(headerStartIndex))

\* App.js:65-156
ParseCsv(text) ==
    LET tagged == ParseCsvTagged(text)
    IN  [k \in 1..Len(tagged) |-> tagged[k].row]

-----------------------------------------------------------------------------
(* The texts the server may answer with: up to MaxLines lines of LinePool,  *)
(* joined by line feeds.                                                   *)

BLANK_LINE == <<" ">>   \* a white-space-only line
HTML_LINE == <<"<", "h", "t", "m", "l">>   \* the marker of App.js:34
HDR_LIQ == <<"S", "y", "m", "b", "o", "l", COMMA, "L", "i", "q", "u", "i", "d", "i", "t", "y">>
HDR_DUP == <<"S", "y", "m", "b", "o", "l", COMMA, "S", "y", "m", "b", "o", "l">>   \* two columns of one name
HDR_SUB == <<QUOTE, "M", "y", " ", "S", "Y", "M", "B", "O", "L", QUOTE, COMMA, "S", "y", "m", "b", "o", "l">>   \* first token holds "symbol" in another case
HDR_NOKEY == <<"s", "y", "m", "b", "o", "l", COMMA, "L", "i", "q", "u", "i", "d", "i", "t", "y">>   \* a header, but no column named Symbol
HDR_SECOND == <<"N", "a", "m", "e", COMMA, "S", "y", "m", "b", "o", "l">>   \* "Symbol" only in the second token
HDR_PROTO == <<"S", "y", "m", "b", "o", "l", COMMA, "_", "_", "p", "r", "o", "t", "o", "_", "_">>
HDR_3 == <<"S", "y", "m", "b", "o", "l", COMMA, "N", "a", "m", "e", COMMA, "P", "r", "i", "c", "e">>
ROW_QUOTED == <<QUOTE, "A", "A", "A", QUOTE, COMMA, QUOTE, "F", "o", "o", COMMA, " ", "I", "n", "c", ".", QUOTE, COMMA, "1", "0", "0">>
ROW_A1 == <<"A", COMMA, "1">>
ROW_B2 == <<"B", COMMA, "2">>
ROW_NOSYM == <<COMMA, "1">>   \* empty first field
ROW_SHORT == <<"A">>   \* one field
ROW_A_EMPTY == <<"A", COMMA>>   \* empty second field

LinePool == {BLANK_LINE, HTML_LINE, HDR_LIQ, HDR_DUP, HDR_SUB, HDR_NOKEY, HDR_SECOND, HDR_PROTO, ROW_QUOTED, ROW_A1, ROW_B2, ROW_NOSYM, ROW_SHORT, ROW_A_EMPTY}

RECURSIVE JoinLines(_)
JoinLines(ls) ==
    IF Len(ls) = 0 THEN <<>>
    ELSE IF Len(ls) = 1 THEN ls[1]
    ELSE ls[1] \o <<LF>> \o JoinLines(Tail(ls))

Texts == {JoinLines(ls) : ls \in UNION {[1..n -> LinePool] : n \in 0..MaxLines}}

-----------------------------------------------------------------------------
(* fetchStockData and the App component *)

Null == "null"
HTML_TAG == <<"<", "h", "t", "m", "l">>
DOCTYPE_TAG == <<"<", "!", "D", "O", "C", "T", "Y", "P", "E">>

ERR_NETWORK == "Failed to load stock data: fetch rejected"
ERR_HTTP == "Failed to load stock data: HTTP error!"
ERR_BODY == "Failed to load stock data: body read rejected"
ERR_HTML == "Failed to load stock data: Received HTML content instead of CSV data."
ERR_EMPTY == "Failed to load stock data: Received empty CSV data."
ERR_NODATA == "Failed to load stock data: No valid stock data found after parsing the CSV."

\* App.js:50: stock.Liquidity || 0
LiquidityOf(stock) ==
    IF LIQUIDITY \in DOMAIN stock /\ stock[LIQUIDITY].kind = "num"
    THEN OrZero(stock[LIQUIDITY]) ELSE Zero

\* Mutation of Comparator: ascending order
ComparatorAscending(a, b) == Cmp(LiquidityOf(a), LiquidityOf(b))

\* App.js:50: the comparator (a, b) => (b.Liquidity || 0) - (a.Liquidity || 0)
Comparator(a, b) == Cmp(LiquidityOf(b), LiquidityOf(a))

RECURSIVE InsertSorted(_, _)
InsertSorted(sorted, x) ==
    IF Len(sorted) > 0 /\ Comparator(sorted[Len(sorted)], x) > 0
    THEN Append(InsertSorted(SubSeq(sorted, 1, Len(sorted) - 1), x), sorted[Len(sorted)])
    ELSE Append(sorted, x)

RECURSIVE SortFrom(_, _, _)
SortFrom(arr, k, acc) ==
    IF k > Len(arr) THEN acc ELSE SortFrom(arr, k + 1, InsertSorted(acc, arr[k]))

\* App.js:50: Array.prototype.sort with the comparator (a stable sort)
SortByLiquidity(arr) == SortFrom(arr, 1, <<>>)

\* App.js:9-62: the effect runs once after the first render and calls
\* fetchStockData, which runs up to the await of App.js:17
RunEffect ==
    /\ pc = "mounted"
    /\ pc' = "awaitFetch"
    /\ UNCHANGED <<stocks, loading, error, responseOk, csvText, parsedData, tokVars, numVars>>

\* App.js:17, 53-58: fetch rejects; catch sets error, finally clears loading
FetchRejects ==
    /\ pc = "awaitFetch"
    /\ error' = ERR_NETWORK
    /\ loading' = FALSE
    /\ pc' = "done"
    /\ UNCHANGED <<stocks, responseOk, csvText, parsedData, tokVars, numVars>>

\* App.js:17-30: fetch resolves; the function suspends on response.text()
FetchResolves ==
    /\ pc = "awaitFetch"
    /\ \E ok \in BOOLEAN :
         /\ responseOk' = IF ok THEN "true" ELSE "false"
         /\ pc' = IF ok THEN "awaitText" ELSE "awaitErrText"
    /\ UNCHANGED <<stocks, loading, error, csvText, parsedData, tokVars, numVars>>

\* App.js:25-28, 53-58: the body of a non-ok response settles; either way an
\* error is thrown
ErrorTextSettles ==
    /\ pc = "awaitErrText"
    /\ \E resolved \in BOOLEAN : error' = IF resolved THEN ERR_HTTP ELSE ERR_BODY
    /\ loading' = FALSE
    /\ pc' = "done"
    /\ UNCHANGED <<stocks, responseOk, csvText, parsedData, tokVars, numVars>>

\* Mutation of TextRejects: the finally block is not reached
TextRejectsNoFinally ==
    /\ pc = "awaitText"
    /\ error' = ERR_BODY
    /\ pc' = "done"
    /\ UNCHANGED <<loading, stocks, responseOk, csvText, parsedData, tokVars, numVars>>

\* App.js:30, 53-58: reading the body of an ok response rejects
TextRejects ==
    /\ pc = "awaitText"
    /\ error' = ERR_BODY
    /\ loading' = FALSE
    /\ pc' = "done"
    /\ UNCHANGED <<stocks, responseOk, csvText, parsedData, tokVars, numVars>>

\* Mutation of NoDataGuard: an empty result is let through
NoDataGuardOff(parsed) == FALSE

\* App.js:45: the guard that turns an empty parse result into an error
NoDataGuard(parsed) == Len(parsed) = 0

\* App.js:30-58: the body of an ok response resolves with a text
TextResolves ==
    /\ pc = "awaitText"
    /\ csvText' \in Texts
    /\ IF Includes(csvText', HTML_TAG) \/ Includes(csvText', DOCTYPE_TAG)
       THEN /\ error' = ERR_HTML
            /\ UNCHANGED <<stocks, parsedData>>
       ELSE IF Len(Trim(csvText')) = 0
       THEN /\ error' = ERR_EMPTY
            /\ UNCHANGED <<stocks, parsedData>>
       ELSE /\ parsedData' = ParseCsv(csvText')
            /\ IF NoDataGuard(parsedData')
               THEN /\ error' = ERR_NODATA
                    /\ UNCHANGED stocks
               ELSE /\ stocks' = SortByLiquidity(parsedData')
                    /\ UNCHANGED error
    /\ loading' = FALSE
    /\ pc' = "done"
    /\ UNCHANGED <<responseOk, tokVars, numVars>>

\* App.js:158-222: which of the four views the component renders
View ==
    IF loading THEN "loading"
    ELSE IF error # Null THEN "error"
    ELSE IF Len(stocks) = 0 THEN "empty"
    ELSE "cards"

\* App.js:239-292: one card per element of stocks, in order
Cards == [k \in 1..Len(stocks) |-> stocks[k]]

Unset == [kind |-> "unset", str |-> <<>>, m |-> 0, f |-> 0]

\* App.js:5-7: the state after construction
Init ==
    /\ pc = "mounted"
    /\ stocks = <<>>
    /\ loading = TRUE
    /\ error = Null
    /\ responseOk = "none"
    /\ csvText = <<>>
    /\ parsedData = <<>>
    /\ line = <<>>
    /\ j = 1
    /\ scan = ScanInit
    /\ tokDone = FALSE
    /\ fieldName = <<>>
    /\ fieldText = <<>>
    /\ coerced = Unset

Next ==
    \/ RunEffect
    \/ FetchRejects
    \/ FetchResolves
    \/ ErrorTextSettles
    \/ TextRejects
    \/ TextResolves

Spec == Init /\ [][Next]_vars

\* Once fetch has resolved, the body read settles and the runtime runs the
\* continuation that awaits it; the fetch itself may stay pending for ever.
LiveSpec == Spec /\ WF_vars(ErrorTextSettles) /\ WF_vars(TextRejects \/ TextResolves)

-----------------------------------------------------------------------------
(* The tokenizer of App.js:100-117 run one character at a time on a line.  *)
(* A line reaches it trimmed and non-empty (App.js:98-99).                 *)

TokAlphabet == {"a", " ", COMMA, QUOTE}

NAME_KEY == <<"N", "a", "m", "e">>
FOO_INC == <<"F", "o", "o", COMMA, " ", "I", "n", "c", ".">>

TokLines ==
    {s \in UNION {[1..n -> TokAlphabet] : n \in 1..MaxTokLen} : Trim(s) = s}
        \cup {ROW_QUOTED}

TokInit ==
    /\ Init!1 /\ Init!2 /\ Init!3 /\ Init!4 /\ Init!5 /\ Init!6 /\ Init!7
    /\ line \in TokLines
    /\ j = 1
    /\ scan = ScanInit
    /\ tokDone = FALSE
    /\ fieldName = <<>>
    /\ fieldText = <<>>
    /\ coerced = Unset

\* App.js:105-116: one iteration of the loop over the characters of line
TokChar ==
    /\ ~tokDone
    /\ j <= Len(line)
    /\ scan' = ScanStep(scan, line[j])
    /\ j' = j + 1
    /\ UNCHANGED <<line, tokDone, appVars, numVars>>

\* App.js:117: the loop has ended; the last value is pushed
TokEnd ==
    /\ ~tokDone
    /\ j > Len(line)
    /\ scan' = [scan EXCEPT !.values = ScanFinish(scan)]
    /\ tokDone' = TRUE
    /\ UNCHANGED <<line, j, appVars, numVars>>

TokNext == TokChar \/ TokEnd

TokSpec == TokInit /\ [][TokNext]_vars

-----------------------------------------------------------------------------
(* The conversion of App.js:123-137 applied to one column of one row.  The *)
(* field text comes from the tokenizer, so it is trimmed and holds no      *)
(* double quote.                                                           *)

NumAlphabet == {"0", "1", ".", "-", COMMA, "a"}

TEXT_1234_56 == <<"1", COMMA, "2", "3", "4", ".", "5", "6">>
TEXT_ABC == <<"a", "b", "c">>

FieldTexts ==
    UNION {[1..n -> NumAlphabet] : n \in 0..MaxNumLen} \cup {TEXT_1234_56, TEXT_ABC}

FiveNumericNames == {CURRENT_PRICE, PRICE_CHANGE, LIQUIDITY, VOLUME, PERCENT_CHANGE}

FieldNames == FiveNumericNames \cup {SYMBOL_KEY, NAME_KEY}

NumInit ==
    /\ Init!1 /\ Init!2 /\ Init!3 /\ Init!4 /\ Init!5 /\ Init!6 /\ Init!7
    /\ line = <<>>
    /\ j = 1
    /\ scan = ScanInit
    /\ tokDone = FALSE
    /\ fieldName \in FieldNames
    /\ fieldText \in FieldTexts
    /\ coerced = Unset

\* App.js:123-137: the column's value is converted and stored in the row
CoerceField ==
    /\ coerced = Unset
    /\ coerced' = Coerce(fieldName, fieldText)
    /\ UNCHANGED <<fieldName, fieldText, appVars, tokVars>>

NumNext == CoerceField

NumSpec == NumInit /\ [][NumNext]_vars

-----------------------------------------------------------------------------
(* Vocabulary of the properties, stated on the text itself *)

\* parseCsv has been called on csvText and has returned parsedData
ParseRan == pc = "done" /\ responseOk = "true" /\ error \in {Null, ERR_NODATA}

IsBlank(s) == \A p \in 1..Len(s) : IsSpace(s[p])

HoldsSymbol(tok) ==
    \E p \in 1..(Len(tok) - 5) :
        \A d \in 0..5 :
            LET c == tok[p + d]
            IN  (IF c \in DOMAIN LowerOf THEN LowerOf[c] ELSE c) = SYMBOL_LC[d + 1]

\* the first non-empty comma-separated token of raw contains "symbol" in any case
FirstTokenHoldsSymbol(raw) ==
    LET cols == Split(raw, COMMA)
    IN  \E k \in 1..Len(cols) :
            /\ ~IsBlank(cols[k])
            /\ \A q \in 1..(k - 1) : IsBlank(cols[q])
            /\ HoldsSymbol(cols[k])

\* the first of the lines that qualifies as header, 0 when none does
HeaderLineOf(lines) ==
    LET qualifying == {i \in 1..Len(lines) : FirstTokenHoldsSymbol(lines[i])}
    IN  IF qualifying = {} THEN 0
        ELSE CHOOSE i \in qualifying : \A k \in qualifying : i <= k

\* the commas of l that an even number of double quotes precede
SeparatorsOf(l) ==
    {p \in 1..Len(l) :
        /\ l[p] = COMMA
        /\ Cardinality({q \in 1..(p - 1) : l[q] = QUOTE}) % 2 = 0}

FieldCount(l) == Cardinality(SeparatorsOf(l)) + 1

CommaCount(l) == Cardinality({p \in 1..Len(l) : l[p] = COMMA})

\* the rightmost column of headers named name, 0 when there is none
LastColumn(headers, name) ==
    LET named == {k \in 1..Len(headers) : headers[k] = name}
    IN  IF named = {} THEN 0 ELSE CHOOSE k \in named : \A q \in named : q <= k

\* the non-blank lines after header line h whose field count is the header's
WellFormedRows(lines, h) ==
    {i \in (h + 1)..Len(lines) :
        ~IsBlank(lines[i]) /\ FieldCount(lines[i]) = CommaCount(lines[h]) + 1}

\* those of them whose Symbol field is not empty
SymbolRows(lines, h) ==
    LET sc == LastColumn(ParseHeaders(lines[h]), SYMBOL_KEY)
    IN  {i \in WellFormedRows(lines, h) :
            sc # 0 /\ Len(Tokenize(Trim(lines[i]))[sc]) > 0}

Count(seq, x) == Cardinality({k \in 1..Len(seq) : seq[k] = x})

NamesOf(headers) == {headers[q] : q \in 1..Len(headers)}

-----------------------------------------------------------------------------
(* Properties *)

\* C1: when the text has a header line and at least one later well-formed row
\* with a non-empty Symbol, parseCsv returns a non-empty sequence with exactly
\* one record per well-formed, Symbol-bearing row after the header.
C1_LengthIsSymbolRowCount ==
    ParseRan =>
        LET lines == Split(csvText, LF)
            h == HeaderLineOf(lines)
            rows == IF h = 0 THEN {} ELSE SymbolRows(lines, h)
        IN  rows # {} => (Len(parsedData) > 0 /\ Len(parsedData) = Cardinality(rows))

\* a parse that kept one row and dropped another non-blank row after the header
C1_Witness ==
    /\ ParseRan
    /\ Len(parsedData) >= 1
    /\ LET lines == Split(csvText, LF)
           h == HeaderLineOf(lines)
       IN  /\ h # 0
           /\ \E i \in (h + 1)..Len(lines) :
                ~IsBlank(lines[i]) /\ i \notin SymbolRows(lines, h)

\* C2 as stated: every record has as many fields as the header row has entries,
\* and a non-empty Symbol.
C2_FieldCountIsHeaderCount ==
    (ParseRan /\ Len(parsedData) > 0) =>
        LET lines == Split(csvText, LF)
            headers == ParseHeaders(lines[HeaderLineOf(lines)])
        IN  \A k \in 1..Len(parsedData) :
              /\ Cardinality(DOMAIN parsedData[k]) = Len(headers)
              /\ SYMBOL_KEY \in DOMAIN parsedData[k]
              /\ parsedData[k][SYMBOL_KEY].str # <<>>

\* C2 amended: every record has one field per distinct header name (a column
\* named __proto__ yields none), so as many fields as the header row has
\* entries when the names are distinct and none is __proto__; and every
\* record has a non-empty Symbol.
C2_FieldPerDistinctName ==
    (ParseRan /\ Len(parsedData) > 0) =>
        LET lines == Split(csvText, LF)
            headers == ParseHeaders(lines[HeaderLineOf(lines)])
        IN  \A k \in 1..Len(parsedData) :
              /\ DOMAIN parsedData[k] = NamesOf(headers) \ {PROTO}
              /\ (Cardinality(NamesOf(headers) \cup {PROTO}) = Len(headers) + 1
                    => Cardinality(DOMAIN parsedData[k]) = Len(headers))
              /\ SYMBOL_KEY \in DOMAIN parsedData[k]
              /\ parsedData[k][SYMBOL_KEY].kind = "str"
              /\ parsedData[k][SYMBOL_KEY].str # <<>>

\* a record with fewer fields than the header has columns
C2_Witness ==
    /\ ParseRan
    /\ LET lines == Split(csvText, LF)
           h == HeaderLineOf(lines)
       IN  /\ h # 0
           /\ \E k \in 1..Len(parsedData) :
                Cardinality(DOMAIN parsedData[k]) < Len(ParseHeaders(lines[h]))

\* C3 as stated: in each of the five numeric fields the stored value is the
\* number parsed from the text with its commas removed, 0 when that fails.
C3_AllFiveStripCommas ==
    (coerced # Unset /\ fieldName \in FiveNumericNames)
        => /\ coerced = OrZero(ParseFloat(RemoveCommas(fieldText)))
           /\ (fieldText = TEXT_1234_56 => coerced = NumV(123456, 2))
           /\ (fieldText = TEXT_ABC => coerced = Zero)

\* C3 amended: Current_price, Price_change, Liquidity and Volume are parsed
\* from the text with its commas removed; Percent_change is parsed from the
\* text as it is, so only up to its first comma; 0 when the parse fails.
\* 1,234.56 gives 1234.56 in the four and 1 in Percent_change; abc gives 0.
C3_FourStripCommas ==
    (coerced # Unset /\ fieldName \in FiveNumericNames)
        => /\ coerced.kind = "num"
           /\ (fieldName # PERCENT_CHANGE
                 => coerced = OrZero(ParseFloat(RemoveCommas(fieldText))))
           /\ (fieldName = PERCENT_CHANGE
                 => coerced = OrZero(ParseFloat(Split(fieldText, COMMA)[1])))
           /\ (fieldText = TEXT_1234_56
                 => coerced = IF fieldName = PERCENT_CHANGE THEN NumV(1, 0) ELSE NumV(123456, 2))
           /\ (fieldText = TEXT_ABC => coerced = Zero)

\* Volume converted from 1,234.56
C3_Witness ==
    /\ fieldName = VOLUME /\ fieldText = TEXT_1234_56
    /\ coerced = NumV(123456, 2)

\* C4: parseCsv always returns a sequence, and the empty one when no line has
\* a first non-empty token containing "symbol"; fetchStockData then reports
\* "no valid stock data" and no other failure.
C4_NoHeaderGivesEmpty ==
    ParseRan =>
        /\ DOMAIN parsedData = 1..Len(parsedData)
        /\ HeaderLineOf(Split(csvText, LF)) = 0 => (parsedData = <<>> /\ error = ERR_NODATA)

\* a parsed text without header in which a later token is "Symbol"
C4_Witness ==
    /\ ParseRan
    /\ HeaderLineOf(Split(csvText, LF)) = 0
    /\ Includes(csvText, SYMBOL_KEY)
    /\ parsedData = <<>>

\* the k-th separating comma of l, counted from the left
NthSeparator(l, k) ==
    CHOOSE p \in SeparatorsOf(l) : Cardinality({q \in SeparatorsOf(l) : q < p}) = k - 1

\* the characters of l between its (k-1)-th and its k-th separating comma
SegmentOf(l, k) ==
    LET n == Cardinality(SeparatorsOf(l))
        from == IF k = 1 THEN 1 ELSE NthSeparator(l, k - 1) + 1
        to == IF k = n + 1 THEN Len(l) ELSE NthSeparator(l, k) - 1
    IN  SubSeq(l, from, to)

\* C5: a comma ends the current field exactly when an even number of double
\* quotes precede it; no field value holds a double quote; there is one field
\* more than there are separating commas; each value is the text between two
\* separators without its quotes, trimmed.  The line "AAA","Foo, Inc.",100
\* under header Symbol,Name,Price gives one record whose Name is Foo, Inc.
C5_CommaSeparatesOutsideQuotes ==
    LET seen == SubSeq(line, 1, j - 1)
    IN  /\ scan.inQuotes = (Cardinality({q \in 1..Len(seen) : seen[q] = QUOTE}) % 2 = 1)
        /\ ~tokDone => Len(scan.values) = Cardinality(SeparatorsOf(seen))
        /\ tokDone =>
             /\ Len(scan.values) = Cardinality(SeparatorsOf(line)) + 1
             /\ \A k \in 1..Len(scan.values) :
                  /\ \A p \in 1..Len(scan.values[k]) : scan.values[k][p] # QUOTE
                  /\ scan.values[k] =
                        Trim(SelectSeq(SegmentOf(line, k), LAMBDA c : c # QUOTE))
        /\ (tokDone /\ line = ROW_QUOTED) =>
             LET records == ParseCsv(JoinLines(<<HDR_3, line>>))
             IN  /\ Len(records) = 1
                 /\ records[1][NAME_KEY] = StrV(FOO_INC)

\* a finished line with a separating comma and a comma kept inside a value
C5_Witness ==
    /\ tokDone
    /\ Len(scan.values) >= 2
    /\ \E k \in 1..Len(scan.values) : \E p \in 1..Len(scan.values[k]) : scan.values[k][p] = COMMA

\* C6: when the cards are shown, the displayed list is a permutation of the
\* records parseCsv returned for the fetched text, in non-increasing order of
\* Liquidity (absent counts as 0), one card per record.
C6_CardsAreSortedPermutation ==
    View = "cards" =>
        /\ parsedData = ParseCsv(csvText)
        /\ Len(Cards) = Len(parsedData)
        /\ \A k \in 1..Len(Cards) : Count(Cards, Cards[k]) = Count(parsedData, Cards[k])
        /\ \A a, b \in 1..Len(Cards) :
             a < b =>
               LET la == IF LIQUIDITY \in DOMAIN Cards[a] THEN Cards[a][LIQUIDITY] ELSE Zero
                   lb == IF LIQUIDITY \in DOMAIN Cards[b] THEN Cards[b][LIQUIDITY] ELSE Zero
               IN  Cmp(la, lb) >= 0

\* cards shown in an order that differs from the order of the rows
C6_Witness ==
    /\ View = "cards"
    /\ Len(Cards) >= 2
    /\ Cards # parsedData

\* C7: the header is the first line whose first non-empty token contains
\* "symbol" in any case; the records come from the non-blank lines after it,
\* and no line at or before it gives a record.
C7_HeaderIsFirstQualifyingLine ==
    ParseRan =>
        LET lines == Split(csvText, LF)
            h == HeaderLineOf(lines)
            tagged == ParseCsvTagged(csvText)
        IN  /\ FindHeader(lines) = h
            /\ parsedData = [k \in 1..Len(tagged) |-> tagged[k].row]
            /\ \A k \in 1..Len(tagged) :
                 /\ h # 0
                 /\ tagged[k].line > h
                 /\ ~IsBlank(lines[tagged[k].line])
            /\ h # 0 => {tagged[k].line : k \in 1..Len(tagged)} = SymbolRows(lines, h)

\* a record-shaped line stands before the header and a record after it
C7_Witness ==
    /\ ParseRan
    /\ Len(parsedData) >= 1
    /\ LET lines == Split(csvText, LF)
           h == HeaderLineOf(lines)
       IN  /\ h > 1
           /\ \E i \in 1..(h - 1) :
                ~IsBlank(lines[i]) /\ FieldCount(lines[i]) = CommaCount(lines[h]) + 1

\* C8: when several columns normalize to one name, each record maps the name
\* to the value of the rightmost such column; the same holds of Symbol, so a
\* well-formed row is kept exactly when its rightmost Symbol column is not empty.
C8_LaterColumnOverwrites ==
    ParseRan =>
        LET lines == Split(csvText, LF)
            h == HeaderLineOf(lines)
            headers == ParseHeaders(lines[h])
            tagged == ParseCsvTagged(csvText)
        IN  h # 0 =>
              /\ \A k \in 1..Len(tagged) :
                   LET values == Tokenize(Trim(lines[tagged[k].line]))
                   IN  \A c \in 1..Len(headers) :
                         headers[c] # PROTO =>
                           parsedData[k][headers[c]] =
                             Coerce(headers[c], values[LastColumn(headers, headers[c])])
              /\ \A i \in WellFormedRows(lines, h) :
                   (\E k \in 1..Len(tagged) : tagged[k].line = i)
                     <=> /\ LastColumn(headers, SYMBOL_KEY) # 0
                         /\ Tokenize(Trim(lines[i]))[LastColumn(headers, SYMBOL_KEY)] # <<>>

\* two columns of one name, and a kept row whose two values differ
C8_Witness ==
    /\ ParseRan
    /\ Len(parsedData) >= 1
    /\ LET lines == Split(csvText, LF)
           h == HeaderLineOf(lines)
           headers == ParseHeaders(lines[h])
           tagged == ParseCsvTagged(csvText)
       IN  \E a, b \in 1..Len(headers) :
             /\ a < b
             /\ headers[a] = headers[b]
             /\ \E k \in 1..Len(tagged) :
                  LET values == Tokenize(Trim(lines[tagged[k].line]))
                  IN  values[a] # values[b] /\ values[a] # <<>>

\* C9: once loading is false, either error is set and stocks is empty, or
\* error is null and stocks is not empty; the "No Stock Data Found" view is
\* never rendered.
C9_ErrorXorStocks ==
    loading = FALSE =>
        /\ (error # Null /\ stocks = <<>>) \/ (error = Null /\ stocks # <<>>)
        /\ ~(error # Null /\ stocks # <<>>)
        /\ View # "empty"

\* a text with a header and no valid row ended as an error
C9_Witness ==
    /\ loading = FALSE
    /\ error = ERR_NODATA
    /\ stocks = <<>>
    /\ HeaderLineOf(Split(csvText, LF)) # 0

\* C10: once the fetch has settled, loading becomes false on every path; and
\* from then on loading stays false and error and stocks do not change.
C10_LoadingEndsAndStaysEnded ==
    /\ (pc \in {"awaitText", "awaitErrText"}) ~> (loading = FALSE)
    /\ [](pc = "done" => loading = FALSE)
    /\ [][loading = FALSE => (loading' = FALSE /\ error' = error /\ stocks' = stocks)]_vars

\* the fetch rejected and loading ended
C10_Witness ==
    /\ pc = "done"
    /\ loading = FALSE
    /\ error = ERR_NETWORK

====
